---- MODULE Spec2Model ----
(***************************************************************************)
(* Model of the two Streamlit pages of the repository: Home.py (CoinGecko  *)
(* prices) and pages/weather_live.py (Open-Meteo weather).  Each page is a *)
(* script that is re-executed from the top on every rerun: it reads the    *)
(* widgets, calls a function memoised by st.cache_data(ttl=...), appends   *)
(* the snapshot to a deque kept in st.session_state, prunes the deque to a *)
(* time window, computes the metrics and, with auto-refresh on, sleeps,    *)
(* clears the cache and reruns.                                            *)
(*                                                                         *)
(* Time is in seconds.  None is <<>> and a present value v is <<v>>.       *)
(***************************************************************************)
EXTENDS Integers, Sequences, FiniteSets, TLC

VARIABLES
    page,           \* which script the session runs: "Home" or "weather_live"
    now,            \* the wall clock (datetime.utcnow), seconds
    pc,             \* position of the script thread
    cache,          \* the st.cache_data entry of the fetch function: <<>> or <<entry>>
    cacheLog,       \* last operation performed on the cache: none/clear/hit/miss/store
    res,            \* (df, err) returned to the script by the cached fetch in this run
    history,        \* st.session_state.price_history / weather_history (deque)
    origin,         \* for each sample of history, the outcome of the fetch it stems from
    lastGood,       \* the frame of the last fetch that returned without an error
    otherHistory,   \* st.session_state history of a second browser session
    otherOps,       \* number of script runs and clears of the second session
    metrics,        \* series -> [current, delta] shown by st.metric in the last render
    auto_refresh,   \* the toggle widget, as set in the browser
    refresh_sec,    \* the slider widget, as set in the browser
    clicked,        \* "Manual refresh now" was pressed and not yet consumed by a run
    runAuto,        \* auto_refresh as read by the current run
    nfetch,         \* network calls (requests.get) issued by the current run
    manualRun,      \* the current run was started by the manual refresh button
    runs            \* script runs started so far

vars == <<page, now, pc, cache, cacheLog, res, history, origin, lastGood, metrics,
          auto_refresh, refresh_sec, clicked, runAuto, nfetch, manualRun, runs,
          otherHistory, otherOps>>

----------------------------------------------------------------------------
(* Bounds of the model *)

MaxRuns == 3

(* clears and script runs of the second session *)
MaxOtherOps == 1

(* Program constants *)

PRICE_TTL == 300
WEATHER_TTL == 600
WINDOW_MINUTES == 30
WINDOW_HOURS == 6
SLIDER_DEFAULT == 30
SAMPLE_BITCOIN == 68000
SAMPLE_ETHEREUM == 3500

COINS == <<"bitcoin", "ethereum">>
WEATHER_SERIES == <<"temperature", "wind">>
Pages == {"Home", "weather_live"}

None == <<>>
Some(v) == <<v>>
IsNone(o) == o = <<>>
Val(o) == o[1]

Ttl(p) == IF p = "Home" THEN PRICE_TTL ELSE WEATHER_TTL
WindowSeconds(p) == IF p = "Home" THEN WINDOW_MINUTES * 60 ELSE WINDOW_HOURS * 3600
Series(p) == IF p = "Home" THEN COINS ELSE WEATHER_SERIES

(* Inputs: time that passes between two script runs, values the services   *)
(* report, age of the reading the weather service reports.                 *)
Elapsed(p) == {1, Ttl(p), WindowSeconds(p) - Ttl(p)}
Quotes == {1, 2}
Readings == {[age |-> 0, temp |-> 1], [age |-> 900, temp |-> 2]}

----------------------------------------------------------------------------
(* The HTTP exchange.  status 0 stands for "no response" (connection error *)
(* or timeout, a requests.RequestException raised by requests.get).        *)
(* shape says what the JSON body is: "rows" a well-formed body, "partial"  *)
(* a JSON object without the expected keys, "scalars" a JSON object that   *)
(* pandas cannot frame.                                                    *)

PriceRow(c, v) == [coin |-> c, usd |-> v]

PriceBodies ==
    { <<PriceRow("bitcoin", Some(q)), PriceRow("ethereum", Some(1))>> : q \in Quotes }
    \cup { <<>> }

WeatherBodies(t) ==
    { <<[time |-> t - r.age, temperature_2m |-> r.temp, wind_speed_10m |-> 1]>> :
          r \in Readings }

Bodies(p, t) == IF p = "Home" THEN PriceBodies ELSE WeatherBodies(t)

Responses(p, t) ==
    { [status |-> 200, shape |-> "rows", body |-> b] : b \in Bodies(p, t) }
    \cup { [status |-> s, shape |-> "none", body |-> <<>>] : s \in {0, 429, 500} }
    \cup { [status |-> 200, shape |-> sh, body |-> <<>>] : sh \in {"partial", "scalars"} }

(* What a call of the fetch function yields: a returned tuple (df, err) or *)
(* an exception that leaves the function.                                  *)
Returned(df, err) == [raised |-> FALSE, df |-> df, err |-> err]
Raised == [raised |-> TRUE, df |-> None, err |-> None]

ERR_429 == "429 Too Many Requests"
ERR_NET == "Network/HTTP error"

(* Home.py fetch_prices: only requests.RequestException is caught.  A body *)
(* of scalars makes pd.DataFrame(data) raise ValueError.  A body whose     *)
(* coins carry no "usd" key frames to rows without a usd column.           *)
fetch_prices(resp) ==
    IF resp.status = 0 THEN Returned(None, Some(ERR_NET))
    ELSE IF resp.status = 429 THEN Returned(None, Some(ERR_429))
    ELSE IF resp.status >= 400 THEN Returned(None, Some(ERR_NET))
    ELSE IF resp.shape = "scalars" THEN Raised
    ELSE IF resp.shape = "partial"
         THEN Returned(Some(<<PriceRow("bitcoin", None), PriceRow("ethereum", None)>>), None)
    ELSE Returned(Some(resp.body), None)

(* weather_live.py get_weather: r.json()["current"] raises KeyError on a   *)
(* body without "current", float(None) raises TypeError; neither is a      *)
(* RequestException.                                                       *)
get_weather(resp) ==
    IF resp.status = 0 THEN Returned(None, Some(ERR_NET))
    ELSE IF resp.status = 429 THEN Returned(None, Some(ERR_429))
    ELSE IF resp.status >= 400 THEN Returned(None, Some(ERR_NET))
    ELSE IF resp.shape # "rows" THEN Raised
    ELSE Returned(Some(<<[time |-> resp.body[1].time,
                          temperature |-> Some(resp.body[1].temperature_2m),
                          wind |-> Some(resp.body[1].wind_speed_10m)]>>), None)

Fetch(p, resp) == IF p = "Home" THEN fetch_prices(resp) ELSE get_weather(resp)

----------------------------------------------------------------------------
(* st.cache_data(ttl=...): one entry per function and argument list; both  *)
(* functions are only ever called with one argument list.                  *)

IsFreshReversed(entry, t, ttl) == t - entry.fetchedAt > ttl

IsFresh(entry, t, ttl) == t - entry.fetchedAt < ttl

CacheHit(c, t, ttl) == c # <<>> /\ IsFresh(c[1], t, ttl)

(* A cache that keeps successful results only *)
CacheStoreOkOnly(value, t) ==
    IF IsNone(value.err) THEN <<[value |-> value, fetchedAt |-> t]>> ELSE <<>>

CacheStore(value, t) == <<[value |-> value, fetchedAt |-> t]>>

CacheClearKeeps(c) == c

CacheClear(c) == <<>>

----------------------------------------------------------------------------
NoMetrics(p) ==
    [s \in {Series(p)[i] : i \in 1..Len(Series(p))} |-> [current |-> None, delta |-> None]]

NoRes == [df |-> None, err |-> None]

Init ==
    /\ page \in Pages
    /\ now = 0
    /\ pc = "start"
    /\ cache = <<>>
    /\ cacheLog = "none"
    /\ res = NoRes
    /\ history = <<>>
    /\ origin = <<>>
    /\ lastGood = None
    /\ otherHistory = <<>>
    /\ otherOps = 0
    /\ metrics = NoMetrics(page)
    /\ auto_refresh = FALSE
    /\ refresh_sec = SLIDER_DEFAULT
    /\ clicked = FALSE
    /\ runAuto = FALSE
    /\ nfetch = 0
    /\ manualRun = FALSE
    /\ runs = 0

(* A widget event the current run has not seen yet *)
Pending == clicked \/ auto_refresh # runAuto

(* The button branch without the clear() call *)
ManualRefreshNoClear ==
    /\ pc \in {"start", "resume"}
    /\ clicked
    /\ clicked' = FALSE
    /\ runAuto' = auto_refresh
    /\ manualRun' = TRUE
    /\ nfetch' = 0
    /\ UNCHANGED <<page, lastGood, now, pc, cache, cacheLog, res, history, origin,
                   metrics, auto_refresh, refresh_sec, runs,
                   otherHistory, otherOps>>

(* The script runs from the top: the widgets are read (lines 58-60); with  *)
(* the button pressed the cache is cleared and the script reruns (lines    *)
(* 65-67).  The clock is not read on this path: pc stays where it is and   *)
(* the time since the previous reading is accounted for by the rerun.      *)
ManualRefresh ==
    /\ pc \in {"start", "resume"}
    /\ clicked
    /\ clicked' = FALSE
    /\ runAuto' = auto_refresh
    /\ cache' = CacheClear(cache)
    /\ cacheLog' = "clear"
    /\ manualRun' = TRUE
    /\ nfetch' = 0
    /\ UNCHANGED <<page, lastGood, now, pc, res, history, origin, metrics,
                   auto_refresh, refresh_sec, runs,
                   otherHistory, otherOps>>

(* Otherwise the script reaches the cached call (line 84 / 67), d seconds  *)
(* after the previous run read the clock: a fresh entry is returned, else  *)
(* the function body runs and issues requests.get.  At "start" (rerun at   *)
(* the end of the sleep, or the runner stopped the previous run) the call  *)
(* follows at once; at "resume" (the user came back after the script had   *)
(* finished) it follows after any time.                                    *)
RunToGet(d) ==
    /\ pc \in {"start", "resume"}
    /\ pc = "start" => d = 1
    /\ ~clicked
    /\ runs < MaxRuns
    /\ runs' = runs + 1
    /\ now' = now + d
    /\ runAuto' = auto_refresh
    /\ IF CacheHit(cache, now', Ttl(page))
       THEN /\ res' = cache[1].value
            /\ cacheLog' = "hit"
            /\ nfetch' = 0
            /\ pc' = "snapshot"
       ELSE /\ res' = NoRes
            /\ cacheLog' = "miss"
            /\ nfetch' = 1
            /\ pc' = "fetching"
    /\ UNCHANGED <<page, lastGood, cache, history, origin, metrics, auto_refresh,
                   refresh_sec, clicked, manualRun,
                   otherHistory, otherOps>>

(* requests.get comes back and the function body finishes: a returned      *)
(* tuple is stored by st.cache_data, an exception is not stored and ends   *)
(* the script run.                                                         *)
FetchReturn(resp) ==
    /\ pc = "fetching"
    /\ LET out == Fetch(page, resp) IN
       IF out.raised
       THEN /\ pc' = "error"
            /\ UNCHANGED <<cache, cacheLog, res, lastGood>>
       ELSE /\ res' = [df |-> out.df, err |-> out.err]
            /\ lastGood' = IF IsNone(out.err) THEN out.df ELSE lastGood
            /\ cache' = CacheStore(res', now)
            /\ cacheLog' = "store"
            /\ pc' = "snapshot"
    /\ UNCHANGED <<page, now, history, origin, metrics, auto_refresh, refresh_sec,
                   clicked, runAuto, nfetch, manualRun, runs,
                   otherHistory, otherOps>>

----------------------------------------------------------------------------
(* Rolling history *)

RECURSIVE AppendAll(_, _)
AppendAll(h, samples) ==
    IF samples = <<>> THEN h
    ELSE AppendAll(Append(h, Head(samples)), Tail(samples))

SAMPLE_DF == <<PriceRow("bitcoin", Some(SAMPLE_BITCOIN)),
               PriceRow("ethereum", Some(SAMPLE_ETHEREUM))>>

(* Home.py lines 85-99: with an error the sample table replaces df; every  *)
(* row becomes a sample stamped with utcnow().                             *)
PriceFrame(r) == IF ~IsNone(r.err) THEN SAMPLE_DF ELSE Val(r.df)

PriceSamples(r, t) ==
    [i \in 1..Len(PriceFrame(r)) |->
        [ts |-> t, coin |-> PriceFrame(r)[i].coin, price |-> Val(PriceFrame(r)[i].usd)]]

(* row[VS] raises KeyError when the frame has no usd column *)
PriceAppendRaises(r) == \E i \in 1..Len(PriceFrame(r)) : IsNone(PriceFrame(r)[i].usd)

(* weather_live.py lines 68-85: with an error a NaN row stamped utcnow()   *)
(* replaces wdf; the sample takes its ts from the row's time column and    *)
(* NaN becomes None.                                                       *)
WeatherFrame(r, t) ==
    IF ~IsNone(r.err) THEN <<[time |-> t, temperature |-> None, wind |-> None]>>
    ELSE Val(r.df)

WeatherSamples(r, t) ==
    <<[ts |-> WeatherFrame(r, t)[1].time,
       temperature |-> WeatherFrame(r, t)[1].temperature,
       wind |-> WeatherFrame(r, t)[1].wind]>>

(* prune_history / prune_weather: pop from the left while the leftmost     *)
(* sample is older than the cutoff.                                        *)
PopOneStale(h, cutoff) ==
    IF h # <<>> /\ Head(h).ts < cutoff THEN Tail(h) ELSE h

RECURSIVE PopStale(_, _)
PopStale(h, cutoff) ==
    IF h # <<>> /\ Head(h).ts < cutoff THEN PopStale(Tail(h), cutoff) ELSE h

prune_history(h, t) == PopStale(h, t - WINDOW_MINUTES * 60)

prune_weather(h, t) == PopStale(h, t - WINDOW_HOURS * 3600)

PruneOp(p, h, t) == IF p = "Home" THEN prune_history(h, t) ELSE prune_weather(h, t)

----------------------------------------------------------------------------
(* Metrics *)

(* DataFrame.sort_values("ts"): rows in ascending ts, ties in row order *)
RECURSIVE InsertByTs(_, _)
InsertByTs(sorted, x) ==
    IF sorted = <<>> THEN <<x>>
    ELSE IF sorted[Len(sorted)].ts <= x.ts THEN Append(sorted, x)
    ELSE Append(InsertByTs(SubSeq(sorted, 1, Len(sorted) - 1), x), sorted[Len(sorted)])

RECURSIVE SortByTs(_)
SortByTs(h) ==
    IF h = <<>> THEN <<>>
    ELSE InsertByTs(SortByTs(SubSeq(h, 1, Len(h) - 1)), h[Len(h)])

IsCoin(s, c) == s.coin = c

(* Home.py line 112: hist_df[hist_df["coin"] == coin].sort_values("ts") *)
CoinView(h, c) == SortByTs(SelectSeq(h, LAMBDA s : IsCoin(s, c)))

PriceMetricPrevIsLast(cdf) ==
    LET current == IF Len(cdf) > 0 THEN Some(cdf[Len(cdf)].price) ELSE None
        prev == IF Len(cdf) > 1 THEN Some(cdf[Len(cdf)].price) ELSE None
    IN  [current |-> current,
         delta |-> IF IsNone(current) \/ IsNone(prev) THEN None
                   ELSE Some(Val(current) - Val(prev))]

(* Home.py lines 113-115 *)
PriceMetric(cdf) ==
    LET current == IF Len(cdf) > 0 THEN Some(cdf[Len(cdf)].price) ELSE None
        prev == IF Len(cdf) > 1 THEN Some(cdf[Len(cdf) - 1].price) ELSE None
    IN  [current |-> current,
         delta |-> IF IsNone(current) \/ IsNone(prev) THEN None
                   ELSE Some(Val(current) - Val(prev))]

Column(h, name) ==
    [i \in 1..Len(h) |-> IF name = "temperature" THEN h[i].temperature ELSE h[i].wind]

(* weather_live.py lines 95-106; a None/NaN cell is None here *)
WeatherMetric(col) ==
    IF col = <<>> THEN [current |-> None, delta |-> None]
    ELSE LET current == col[Len(col)]
             prev == IF Len(col) > 1 THEN col[Len(col) - 1] ELSE None
         IN  [current |-> current,
              delta |-> IF IsNone(prev) \/ IsNone(current) THEN None
                        ELSE Some(Val(current) - Val(prev))]

Compute(p, h) ==
    IF p = "Home"
    THEN [c \in {COINS[i] : i \in 1..Len(COINS)} |-> PriceMetric(CoinView(h, c))]
    ELSE [s \in {WEATHER_SERIES[i] : i \in 1..Len(WEATHER_SERIES)} |->
             WeatherMetric(Column(h, s))]

----------------------------------------------------------------------------
(* The rest of the script *)

(* Lines 85-99 (Home) / 68-85 (weather): fallback and append.  The       *)
(* st.dataframe call before it hands a queued widget event to the runner.  *)
AppendSnapshot ==
    /\ pc = "snapshot"
    /\ ~Pending
    /\ IF page = "Home" /\ PriceAppendRaises(res)
       THEN /\ pc' = "error"
            /\ UNCHANGED <<history, origin>>
       ELSE /\ history' = AppendAll(history, IF page = "Home" THEN PriceSamples(res, now)
                                             ELSE WeatherSamples(res, now))
            /\ origin' = origin \o [i \in 1..(Len(history') - Len(history)) |->
                                       IF IsNone(res.err) THEN "ok" ELSE "err"]
            /\ pc' = "appended"
    /\ UNCHANGED <<page, lastGood, now, cache, cacheLog, res, metrics, auto_refresh,
                   refresh_sec, clicked, runAuto, nfetch, manualRun, runs,
                   otherHistory, otherOps>>

(* Line 100 (Home) / 86 (weather) *)
Prune ==
    /\ pc = "appended"
    /\ history' = PruneOp(page, history, now)
    /\ origin' = SubSeq(origin, Len(history) - Len(history') + 1, Len(origin))
    /\ pc' = "render"
    /\ UNCHANGED <<page, lastGood, now, cache, cacheLog, res, metrics, auto_refresh,
                   refresh_sec, clicked, runAuto, nfetch, manualRun, runs,
                   otherHistory, otherOps>>

(* The end of the script entering the sleep whatever the toggle says *)
RenderAlwaysSleeps ==
    /\ pc = "render"
    /\ metrics' = Compute(page, history)
    /\ pc' = "waiting"
    /\ UNCHANGED <<page, lastGood, now, cache, cacheLog, res, history, origin,
                   auto_refresh, refresh_sec, clicked, runAuto, nfetch, manualRun,
                   runs,
                   otherHistory, otherOps>>

(* Metrics and charts, then the end of the script: with auto-refresh on    *)
(* the thread enters time.sleep(refresh_sec), else the run is over.        *)
Render ==
    /\ pc = "render"
    /\ metrics' = Compute(page, history)
    /\ pc' = IF runAuto THEN "waiting" ELSE "idle"
    /\ UNCHANGED <<page, lastGood, now, cache, cacheLog, res, history, origin,
                   auto_refresh, refresh_sec, clicked, runAuto, nfetch, manualRun,
                   runs,
                   otherHistory, otherOps>>

(* The sleep ending in a rerun without the clear() call *)
WakeNoClear ==
    /\ pc = "waiting"
    /\ now' = now + refresh_sec
    /\ cacheLog' = "clear"
    /\ manualRun' = FALSE
    /\ pc' = "start"
    /\ UNCHANGED <<page, lastGood, cache, res, history, origin, metrics, auto_refresh,
                   refresh_sec, clicked, runAuto, nfetch, runs,
                   otherHistory, otherOps>>

(* Lines 139-141 (Home) / 136-138 (weather): the sleep ends, the cache is  *)
(* cleared and the script reruns.                                          *)
Wake ==
    /\ pc = "waiting"
    /\ now' = now + refresh_sec
    /\ cache' = CacheClear(cache)
    /\ cacheLog' = "clear"
    /\ manualRun' = FALSE
    /\ pc' = "start"
    /\ UNCHANGED <<page, lastGood, res, history, origin, metrics, auto_refresh,
                   refresh_sec, clicked, runAuto, nfetch, runs,
                   otherHistory, otherOps>>

(* Script runner: a widget event starts a run when none is in progress     *)
(* (script finished or stopped by an exception) and stops the run in       *)
(* progress at its next st.* call; while the thread is blocked in          *)
(* requests.get or time.sleep the event stays queued.                      *)
Finished == {"idle", "error"}

Yielding == {"snapshot", "render"}

Blocked == {"fetching", "waiting"}

HandleQueued ==
    /\ pc \in {"snapshot", "error"}
    /\ Pending
    /\ manualRun' = FALSE
    /\ pc' = "start"
    /\ UNCHANGED <<page, lastGood, now, cache, cacheLog, res, history, origin, metrics,
                   auto_refresh, refresh_sec, clicked, runAuto, nfetch, runs,
                   otherHistory, otherOps>>

(* The user *)
Click ==
    /\ pc \in Finished \cup Yielding \cup Blocked
    /\ ~clicked
    /\ clicked' = TRUE
    /\ pc' = IF pc \in Finished THEN "resume" ELSE IF pc \in Yielding THEN "start" ELSE pc
    /\ manualRun' = IF pc \in Blocked THEN manualRun ELSE FALSE
    /\ UNCHANGED <<page, lastGood, now, cache, cacheLog, res, history, origin, metrics,
                   auto_refresh, refresh_sec, runAuto, nfetch, runs,
                   otherHistory, otherOps>>

Toggle ==
    /\ pc \in Finished \cup Yielding \cup Blocked
    /\ auto_refresh' = ~auto_refresh
    /\ pc' = IF pc \in Finished THEN "resume" ELSE IF pc \in Yielding THEN "start" ELSE pc
    /\ manualRun' = IF pc \in Blocked THEN manualRun ELSE FALSE
    /\ UNCHANGED <<page, lastGood, now, cache, cacheLog, res, history, origin, metrics,
                   refresh_sec, clicked, runAuto, nfetch, runs,
                   otherHistory, otherOps>>

Next ==
    \/ ManualRefresh
    \/ \E d \in Elapsed(page) : RunToGet(d)
    \/ \E resp \in Responses(page, now) : FetchReturn(resp)
    \/ AppendSnapshot
    \/ Prune
    \/ Render
    \/ Wake
    \/ HandleQueued
    \/ Click
    \/ Toggle

Spec == Init /\ [][Next]_vars

----------------------------------------------------------------------------
(* A second browser session on the same page of the same server process.   *)
(* st.cache_data keeps its entries per function for the whole process, so  *)
(* both sessions use the one cache; st.session_state (the history) is per  *)
(* session.  The second session's steps are taken as whole units between   *)
(* the steps of the first.                                                 *)

(* Its "Refresh now" click or the end of its auto-refresh sleep (lines     *)
(* 65-67, 138-141 / 50-52, 135-138): <fn>.clear()                          *)
OtherSessionClear ==
    /\ otherOps < MaxOtherOps
    /\ otherOps' = otherOps + 1
    /\ cache' = CacheClear(cache)
    /\ UNCHANGED <<page, now, pc, cacheLog, res, history, origin, lastGood, metrics,
                   auto_refresh, refresh_sec, clicked, runAuto, nfetch, manualRun, runs,
                   otherHistory>>

(* One script run of it (lines 84-100 / 67-86): the cached call, the       *)
(* fallback, append and prune on its own history.  An exception stores     *)
(* nothing and ends its run.                                               *)
OtherSessionRun(resp) ==
    /\ otherOps < MaxOtherOps
    /\ otherOps' = otherOps + 1
    /\ LET hit == CacheHit(cache, now, Ttl(page))
           out == Fetch(page, resp)
           r == IF hit THEN cache[1].value ELSE [df |-> out.df, err |-> out.err]
       IN  IF ~hit /\ out.raised
           THEN UNCHANGED <<cache, otherHistory>>
           ELSE /\ cache' = IF hit THEN cache ELSE CacheStore(r, now)
                /\ otherHistory' =
                     IF page = "Home" /\ PriceAppendRaises(r) THEN otherHistory
                     ELSE PruneOp(page,
                                  AppendAll(otherHistory,
                                            IF page = "Home" THEN PriceSamples(r, now)
                                            ELSE WeatherSamples(r, now)),
                                  now)
    /\ UNCHANGED <<page, now, pc, cacheLog, res, history, origin, lastGood, metrics,
                   auto_refresh, refresh_sec, clicked, runAuto, nfetch, manualRun, runs>>

NextSessions ==
    \/ Next
    \/ OtherSessionClear
    \/ \E resp \in Responses(page, now) : OtherSessionRun(resp)

SpecSessions == Init /\ [][NextSessions]_vars

----------------------------------------------------------------------------
(* Properties *)

GetStep == pc \in {"start", "resume"} /\ pc' \in {"snapshot", "fetching"}

PruneStep == pc = "appended" /\ pc' = "render"

RenderStep == pc = "render" /\ pc' \in {"idle", "waiting"}

(* C1: a Get that finds an entry (no clear since the fetch that filled it) *)
(* younger than the TTL issues no network call, returns the stored tuple   *)
(* unchanged and leaves the entry as it is.                                *)
CacheHitServesStored ==
    [][ (GetStep /\ cache # <<>> /\ now' - cache[1].fetchedAt < Ttl(page))
            => (pc' = "snapshot" /\ nfetch' = 0 /\ res' = cache[1].value /\ cache' = cache)
      ]_vars

CacheHitReached ==
    /\ pc = "snapshot"
    /\ cacheLog = "hit"
    /\ nfetch = 0
    /\ cache # <<>>
    /\ now > cache[1].fetchedAt
    /\ res = cache[1].value

(* C2: a Get that finds an entry of age >= TTL issues exactly one network  *)
(* call, and when that call is over the result is stored with fetchedAt =  *)
(* now and returned to the script.                                         *)
ExpiredGetRefetchesAndStores ==
    [][ /\ (GetStep /\ cache # <<>> /\ now' - cache[1].fetchedAt >= Ttl(page))
            => (pc' = "fetching" /\ nfetch' = 1)
        /\ (pc = "fetching" /\ cache # <<>> /\ pc' # "fetching")
            => (pc' = "snapshot" /\ nfetch' = 1
                /\ cache' = <<[value |-> res', fetchedAt |-> now']>>)
      ]_vars

(* C3: the Get that follows a clear of the cache always goes to the        *)
(* network, whatever entry the clear found.                                *)
InvalidateThenGetFetches ==
    [][ (GetStep /\ cacheLog = "clear")
            => (pc' = "fetching" /\ cacheLog' = "miss" /\ nfetch' = 1) ]_vars

InvalidateThenGetReached ==
    /\ pc = "fetching"
    /\ cacheLog = "miss"
    /\ manualRun
    /\ history # <<>>

(* C4: the button can be pressed while the script is finished, fetching or *)
(* sleeping; a press is only ever consumed by the manual refresh, which    *)
(* clears the cache, and the run that follows goes to the network and is   *)
(* never served from the cache.                                            *)
ManualTriggerForcesFetch ==
    [][ /\ (pc \in {"idle", "fetching", "waiting"} /\ ~clicked) => ENABLED Click
        /\ (clicked /\ ~clicked') => (manualRun' /\ cache' = <<>> /\ pc' \in {"start", "resume"})
        /\ manualRun' => IF pc' \in {"start", "resume"} THEN cache' = <<>>
                         ELSE nfetch' = 1 /\ cacheLog' \in {"miss", "store"}
      ]_vars

ManualTriggerReached ==
    /\ manualRun
    /\ pc = "appended"
    /\ cacheLog = "store"
    /\ nfetch = 1
    /\ Len(history) > Len(Series(page))

(* C5: the prune removes exactly the samples with ts < now - window and    *)
(* keeps the others in their order.                                        *)
Kept(s) == s.ts >= now - WindowSeconds(page)

PruneRemovesExactlyStale ==
    [][ PruneStep => history' = SelectSeq(history, Kept) ]_vars

(* C6: pruning again at the same instant changes nothing.                  *)
PruneIdempotent ==
    [][ PruneStep => PruneOp(page, history', now') = history' ]_vars

PruneEvictedReached ==
    /\ page = "Home"
    /\ pc = "render"
    /\ ~IsNone(metrics["bitcoin"].delta)
    /\ history # <<>>
    /\ history[1].ts > 1

(* C7: right after the prune of a cycle every retained sample has          *)
(* ts >= now - window.                                                     *)
WindowInvariant ==
    pc = "render" => \A i \in 1..Len(history) : history[i].ts >= now - WindowSeconds(page)

(* C8: the history is always in non-decreasing timestamp order.            *)
HistoryOrdered ==
    \A i, j \in 1..Len(history) : i < j => history[i].ts <= history[j].ts

(* C9: the metrics shown for a series are (absent, absent) with no sample, *)
(* (value, absent) with one sample, and with two or more the last value    *)
(* and the difference last - second-to-last (absent when an operand is a   *)
(* missing value).                                                         *)
SeriesValues(p, h, s) ==
    IF p = "Home"
    THEN LET own == SelectSeq(h, LAMBDA x : x.coin = s)
         IN  [i \in 1..Len(own) |-> Some(own[i].price)]
    ELSE [i \in 1..Len(h) |-> IF s = "temperature" THEN h[i].temperature ELSE h[i].wind]

Difference(a, b) == IF a = <<>> \/ b = <<>> THEN <<>> ELSE <<a[1] - b[1]>>

MetricsAsSpecified ==
    [][ RenderStep =>
          \A s \in DOMAIN metrics' :
              LET v == SeriesValues(page, history, s) IN
              /\ Len(v) = 0 => metrics'[s] = [current |-> <<>>, delta |-> <<>>]
              /\ Len(v) = 1 => metrics'[s] = [current |-> v[1], delta |-> <<>>]
              /\ Len(v) >= 2 => metrics'[s] = [current |-> v[Len(v)],
                                               delta |-> Difference(v[Len(v)], v[Len(v) - 1])]
      ]_vars

MetricsDeltaReached ==
    /\ pc \in {"idle", "waiting"}
    /\ \E s \in DOMAIN metrics : metrics[s].delta \notin {<<>>, <<0>>}

(* C10: no outcome of the network call makes the script run end in an      *)
(* exception: the fetch returns a tuple and the cycle completes.           *)
NeverRaises == pc # "error"

AppendStep == pc = "snapshot" /\ pc' = "appended"

(* the numeric cells of one history sample, as options *)
SampleValues(p, s) ==
    IF p = "Home" THEN {Some(s.price)} ELSE {s.temperature, s.wind}

(* C11: a cycle whose fetch returned an error appends nothing or appends   *)
(* samples whose values are all missing; it never appends a number that    *)
(* was not fetched.                                                        *)
FailedCycleAppendsNoNumber ==
    [][ (AppendStep /\ ~IsNone(res.err))
            => \A i \in (Len(history) + 1)..Len(history') :
                   SampleValues(page, history'[i]) \subseteq {None}
      ]_vars

(* the fetch outcomes behind the rows a series' metric is computed from,   *)
(* in the order in which the metric reads them                             *)
SeriesOrigins(p, h, o, s) ==
    LET tagged == [i \in 1..Len(h) |-> [ts |-> h[i].ts, sample |-> h[i], from |-> o[i]]]
        rows == IF p = "Home"
                THEN SortByTs(SelectSeq(tagged, LAMBDA x : x.sample.coin = s))
                ELSE tagged
    IN  [i \in 1..Len(rows) |-> rows[i].from]

(* C12: when the last sample of a series stems from a failed fetch, current *)
(* and delta are absent; when the second-to-last does, delta is absent.    *)
MissingValuePropagates ==
    [][ RenderStep =>
          \A s \in DOMAIN metrics' :
              LET from == SeriesOrigins(page, history, origin, s)
                  n == Len(from)
              IN  /\ (n >= 1 /\ from[n] = "err")
                        => (IsNone(metrics'[s].current) /\ IsNone(metrics'[s].delta))
                  /\ (n >= 2 /\ from[n - 1] = "err") => IsNone(metrics'[s].delta)
      ]_vars

(* a cycle that ends with auto-refresh off leaves the script finished, and *)
(* a finished script does nothing until a widget event reruns it           *)
EndsIdleAndStays ==
    /\ (RenderStep /\ ~runAuto) => pc' = "idle"
    /\ pc = "idle" => /\ ~auto_refresh
                      /\ pc' = "resume"
                      /\ clicked' \/ auto_refresh'
                      /\ nfetch' = nfetch /\ cache' = cache /\ history' = history

TimerGetStep == GetStep /\ cacheLog = "clear" /\ ~manualRun

(* C14: once the toggle is switched off during the sleep, the sleep does   *)
(* not run to its end and start one more cycle: no Get that follows the    *)
(* sleep with auto-refresh off issues a network call.                      *)
ToggleOffCancelsSleep ==
    [][ /\ (pc = "waiting" /\ ~auto_refresh) => pc' = "waiting"
        /\ (TimerGetStep /\ ~auto_refresh) => nfetch' = 0
      ]_vars

(* the frame handed to st.dataframe (Home.py line 90, weather_live.py line *)
(* 74) in the current run                                                  *)
Shown == IF page = "Home" THEN PriceFrame(res) ELSE WeatherFrame(res, now)

(* C15: in a cycle whose fetch returned an error after an earlier fetch    *)
(* had succeeded, the frame shown with the error message is the payload of *)
(* the last successful fetch.                                              *)
ErrorShowsLastGood ==
    (pc \in {"appended", "render"} /\ ~IsNone(res.err) /\ ~IsNone(lastGood))
        => Shown = Val(lastGood)

(* C16: with auto-refresh on, a failed fetch never ends the loop: the run  *)
(* does not stop in an error state, the failed cycle goes on to the sleep, *)
(* and the sleep ends after refresh_sec seconds in a new script run.       *)
FetchErrorNeverStopsLoop ==
    [][ /\ (pc = "fetching" /\ runAuto /\ auto_refresh) => pc' # "error"
        /\ (RenderStep /\ ~IsNone(res.err) /\ runAuto) => pc' = "waiting"
        /\ (pc = "waiting" /\ pc' # "waiting")
              => (pc' = "start" /\ now' = now + refresh_sec)
      ]_vars

(* C17: every sample a cycle appends has a timestamp strictly greater than *)
(* that of the sample appended before it by an earlier cycle, also when    *)
(* the cycle is served from the cache or follows a failed fetch.           *)
AppendedTimestampsIncrease ==
    [][ (AppendStep /\ history # <<>>)
            => \A i \in (Len(history) + 1)..Len(history') :
                   history'[i].ts > history[Len(history)].ts
      ]_vars

OtherSessionStep == otherOps' # otherOps

(* C18: the two sessions are isolated: a clear or a fetch of the second    *)
(* session never changes whether the first session's next Get is a hit or  *)
(* a miss, and no session's step changes the other's history.              *)
SessionsIsolated ==
    [][ /\ OtherSessionStep
              => /\ \A d \in Elapsed(page) :
                        CacheHit(cache', now + d, Ttl(page))
                            <=> CacheHit(cache, now + d, Ttl(page))
                 /\ history' = history
        /\ ~OtherSessionStep => otherHistory' = otherHistory
      ]_vars

(* C19: the end of every auto-refresh sleep clears the cache before the    *)
(* rerun, although refresh_sec is shorter than the TTL, so the Get of the  *)
(* timer-driven run misses and issues exactly one network call; a Get is   *)
(* served from the cache only when no clear preceded it.                   *)
TimerCycleAlwaysFetches ==
    [][ /\ (pc = "waiting" /\ pc' # "waiting")
              => /\ pc' = "start" /\ cache' = <<>>
                 /\ now' - now = refresh_sec /\ refresh_sec < Ttl(page)
        /\ TimerGetStep => (pc' = "fetching" /\ nfetch' = 1)
        /\ (GetStep /\ pc' = "snapshot") => (cacheLog # "clear" /\ nfetch' = 0)
        /\ pc \notin {"start", "resume"} => nfetch' = nfetch
      ]_vars

TimerCycleFetched ==
    /\ page = "Home"
    /\ pc = "fetching"
    /\ ~manualRun
    /\ cache = <<>>
    /\ nfetch = 1
    /\ history # <<>>
    /\ now - history[Len(history)].ts = refresh_sec + 1

(* the samples a cycle appends when its result is an error *)
FallbackSamples(p, t) ==
    IF p = "Home"
    THEN <<[ts |-> t, coin |-> "bitcoin", price |-> SAMPLE_BITCOIN],
           [ts |-> t, coin |-> "ethereum", price |-> SAMPLE_ETHEREUM]>>
    ELSE <<[ts |-> t, temperature |-> None, wind |-> None]>>

(* C20: a returned error is stored like a success; every Get that finds it *)
(* younger than the TTL returns the same error without a network call, and *)
(* the cycle goes on to append its fallback sample.                        *)
ErrorResultCached ==
    [][ /\ (pc = "fetching" /\ pc' = "snapshot" /\ ~IsNone(res'.err))
              => cache' = <<[value |-> res', fetchedAt |-> now]>>
        /\ (GetStep /\ cache # <<>> /\ ~IsNone(cache[1].value.err)
                /\ now' - cache[1].fetchedAt < Ttl(page))
              => (pc' = "snapshot" /\ nfetch' = 0 /\ res' = cache[1].value /\ cache' = cache)
        /\ (pc = "snapshot" /\ ~IsNone(res.err)) => pc' \in {"snapshot", "appended", "start"}
        /\ (AppendStep /\ ~IsNone(res.err))
              => history' = history \o FallbackSamples(page, now)
      ]_vars

ErrorHitAppended ==
    /\ pc = "appended"
    /\ cacheLog = "hit"
    /\ nfetch = 0
    /\ ~IsNone(res.err)
    /\ cache # <<>> /\ cache[1].value = res /\ now > cache[1].fetchedAt
    /\ Len(history) >= 2

====
